---- MODULE Spec2Model ----
(***************************************************************************)
(* Model of the INNER tracker page (App): the per-week state held in React *)
(* state, its copy in localStorage written by the useLocalState effects,   *)
(* and the handlers that mutate it.                                        *)
(*                                                                         *)
(* JavaScript values are modelled as records.  A week object carries its   *)
(* well-typed fields inline (meta, habits, ticks, ...); `nulls` lists the  *)
(* fields whose value is JSON null and `ones` the fields whose value is    *)
(* the JSON number 1 (a truthy value of the wrong type).  The top-level    *)
(* tag `t` distinguishes objects from the JSON values null and number.     *)
(* A string held in localStorage or in a file is a record with a `text`    *)
(* tag: "empty" (the empty string), "garbage" (not JSON) or "json" with    *)
(* the document it encodes and the indentation it was written with.        *)
(* Dates are day numbers, day 0 being a Monday; instants are hours since   *)
(* 00:00 UTC of day 0.  localStorage.setItem is taken to succeed.          *)
(***************************************************************************)
EXTENDS Integers, Sequences, FiniteSets, TLC

VARIABLES
    localStorage,   \* key -> stored string, for the keys that exist
    weekStartISO,   \* React state of useLocalState("inner-week-start", ...)
    week,           \* React state of useLocalState(storageKey, ...)
    crashed,        \* a render threw: React has unmounted the tree
    readers,        \* FileReaders started by importJSON, not yet loaded
    download,       \* the file produced by the last exportJSON
    exported,       \* the week and its date at the last exportJSON
    alertMsg,       \* the alert() raised by the last step, "" if none
    clock,          \* logical time, advanced by every step
    browser,        \* the browser's timezone and the current instant
    last,           \* the last step: its name and inputs, for shiftWeek
                    \* and addHabit the state it started from, and for
                    \* setHabitEnabled the habit score it started from
    prev            \* the step before the last

vars == <<localStorage, weekStartISO, week, crashed, readers, download,
          exported, alertMsg, clock, browser, last, prev>>

\* ---------------------------------------------------------------- bounds
MaxOps == 3
MaxReaders == 1

\* ------------------------------------------------------------- constants
NDays == 7
STORAGE_PREFIX == "inner-tracker-v2.2:"
WEEK_START_KEY == "inner-week-start"

DEFAULT_HABITS ==
    << [id |-> "upstream",   name |-> "2-min upstream block (start of day)",    enabled |-> TRUE,  kind |-> "inner"],
       [id |-> "sleep",      name |-> "Sleep >= 7h",                            enabled |-> TRUE,  kind |-> "inner"],
       [id |-> "move",       name |-> "Move 20+ min",                           enabled |-> TRUE,  kind |-> "inner"],
       [id |-> "noscroll",   name |-> "No-scroll bedtime",                      enabled |-> TRUE,  kind |-> "inner"],
       [id |-> "learn",      name |-> "Learn (10 pages / 20 min)",              enabled |-> TRUE,  kind |-> "inner"],
       [id |-> "fuel",       name |-> "Fuel/Water (prep or >=2L)",              enabled |-> TRUE,  kind |-> "inner"],
       [id |-> "connect",    name |-> "Connect (msg/call someone who matters)", enabled |-> TRUE,  kind |-> "inner"],
       [id |-> "screentime", name |-> "Screen time <= target (hrs)",            enabled |-> TRUE,  kind |-> "inner"],
       [id |-> "publish",    name |-> "Post something public",                  enabled |-> FALSE, kind |-> "outer"] >>

\* ----------------------------------------------------- sequence helpers
Range(s) == { s[i] : i \in DOMAIN s }
\* s.filter((x) => x.id !== id)
RemoveId(s, id) == LET keep(x) == x.id # id IN SelectSeq(s, keep)
Fill(n, v) == [i \in 1..n |-> v]
\* habits.map((h) => (h.id === id ? { ...h, [field]: value } : h))
MapHabits(habits, id, field, value) ==
    [i \in DOMAIN habits |->
        IF habits[i].id = id THEN [habits[i] EXCEPT ![field] = value] ELSE habits[i]]

\* ------------------------------------------------------------ JS values
Null == [t |-> "null"]
Num(n) == [t |-> "num", n |-> n]
Str(s) == [t |-> "str", s |-> s]
EmptyObject == [t |-> "obj", nulls |-> {}, ones |-> {}]

IsObject(v) == v.t = "obj"
\* v.f is a well-typed object or array
Typed(v, f) == IsObject(v) /\ f \in DOMAIN v
\* v?.f is truthy
Truthy(v, f) == IsObject(v) /\ (f \in DOMAIN v \/ f \in v.ones)
\* the document has a member f
Contains(v, f) == IsObject(v) /\ (f \in DOMAIN v \/ f \in v.ones \/ f \in v.nulls)
\* { ...v.f }: the own properties of v.f (none for a number, null, undefined)
Spread(v, f) == IF f \in DOMAIN v THEN v[f] ELSE <<>>
\* { ...v, [f]: x }
With(v, f, x) ==
    [k \in DOMAIN v \cup {f} |->
        IF k = f THEN x
        ELSE IF k = "nulls" THEN v.nulls \ {f}
        ELSE IF k = "ones" THEN v.ones \ {f}
        ELSE v[k]]
\* const { [k]: _, ...rest } = o
Without(o, k) == [j \in DOMAIN o \ {k} |-> o[j]]

\* ------------------------------------------------------ JSON and storage
NoItem == [text |-> "absent"]                       \* getItem(...) === null
EmptyText == [text |-> "empty"]
Garbage == [text |-> "garbage"]
\* a serialiser that loses the ticks member
JSON_stringifyWithoutTicks(v, indent) ==
    [text |-> "json", indent |-> indent,
     doc |-> IF "ticks" \in DOMAIN v THEN Without(v, "ticks") ELSE v]
JSON_stringify(v, indent) == [text |-> "json", doc |-> v, indent |-> indent]
JSON_parses(raw) == raw.text = "json"               \* otherwise it throws
JSON_parse(raw) == raw.doc
IsTruthyString(raw) == raw.text \notin {"absent", "empty"}

getItem(ls, key) == IF key \in DOMAIN ls THEN ls[key] ELSE NoItem
setItem(ls, key, raw) == (key :> raw) @@ ls

\* ---------------------------------------------------------------- dates
\* offset of local time from UTC, in hours, at a UTC instant / a wall time
OffsetAtUTC(zone, t) ==
    IF zone.hasDst /\ t + zone.std >= zone.dstStart THEN zone.std + 1 ELSE zone.std
OffsetAtWall(zone, wall) ==
    IF zone.hasDst /\ wall >= zone.dstStart + 1 THEN zone.std + 1 ELSE zone.std
ToWall(zone, t) == t + OffsetAtUTC(zone, t)
FromWall(zone, wall) == wall - OffsetAtWall(zone, wall)
\* Date.prototype.getDay of the local date: 0 = Sunday
getDay(zone, t) == ((ToWall(zone, t) \div 24) + 1) % 7
\* d.setDate(d.getDate() + k)
setDatePlus(zone, t, k) == FromWall(zone, ToWall(zone, t) + 24 * k)
\* d.setHours(0, 0, 0, 0)
setHoursZero(zone, t) == FromWall(zone, (ToWall(zone, t) \div 24) * 24)

mondayOfWeek(zone, date) ==
    LET day == (getDay(zone, date) + 6) % 7
    IN  setHoursZero(zone, setDatePlus(zone, date, 0 - day))
\* new Date(d).toISOString().slice(0, 10): the UTC date of the instant
formatISO(t) == t \div 24
\* new Date(weekStartISO): midnight UTC of that date
DateOfISO(iso) == iso * 24

storageKey(iso) == STORAGE_PREFIX \o ToString(iso)

\* -------------------------------------------------------- default state
TicksOf(habits) == [id \in { h.id : h \in Range(habits) } |-> Fill(NDays, FALSE)]

newWeekState(iso, now) ==
    [ t |-> "obj", nulls |-> {}, ones |-> {},
      meta |-> [weekStart |-> iso, createdAt |-> now, theme |-> "", logoDataUrl |-> ""],
      metrics |-> [realMetricLabel |-> "Sleep hours", realMetricValue |-> "",
                   screenTimeTarget |-> "2.5", dailyInnerMinutes |-> Fill(NDays, 2),
                   innerShareEstimate |-> 60],
      habits |-> DEFAULT_HABITS,
      ticks |-> TicksOf(DEFAULT_HABITS),
      sections |-> <<>>,
      oneTime |-> [whysTopic |-> "", rootCause |-> "", vanityFrom |-> "", realTo |-> "",
                   seam |-> "", bridgeAction |-> "", bridgeWhen |-> ""],
      wins |-> Fill(5, ""),
      reflection |-> [helped |-> "", overPolish |-> "", stop |-> "", cont |-> "",
                      start |-> "", nextInnerShare |-> 60, commitment |-> ""] ]

\* ------------------------------------------------------------- rendering
\* App's render reads these members of week without guarding them; a
\* missing one throws a TypeError and React unmounts the tree.
CanRender(w) ==
    /\ IsObject(w)
    /\ Truthy(w, "meta")                               \* week.meta.theme
    /\ Typed(w, "habits")                              \* week.habits.filter
    /\ Typed(w, "metrics")
    /\ "dailyInnerMinutes" \in DOMAIN w.metrics        \* .reduce
    /\ Typed(w, "sections")                            \* week.sections.map
    /\ Truthy(w, "oneTime")
    /\ Typed(w, "wins")                                \* week.wins.map
    /\ Truthy(w, "reflection")
    /\ \A i \in DOMAIN w.habits :                      \* week.ticks[h.id][i]
          Typed(w, "ticks") /\ w.habits[i].id \in DOMAIN w.ticks

\* ------------------------------------------------------- derived values
\* computed by every render of App from the week it renders
\* arr.filter(Boolean).length
CountTrue(arr) == LET isTrue(b) == b = TRUE IN Len(SelectSeq(arr, isTrue))
\* week.habits.filter((h) => h.enabled)
enabledHabits(w) == LET isEnabled(h) == h.enabled IN SelectSeq(w.habits, isEnabled)
\* hs.filter((h) => h.kind === kind)
OfKind(hs, kind) == LET hasKind(h) == h.kind = kind IN SelectSeq(hs, hasKind)
\* hs.reduce((sum, h) => sum + week.ticks[h.id].filter(Boolean).length, 0)
RECURSIVE SumTicks(_, _)
SumTicks(hs, ticks) ==
    IF hs = <<>> THEN 0
    ELSE CountTrue(ticks[Head(hs).id]) + SumTicks(Tail(hs), ticks)
\* Math.round(num / den) for den > 0: the nearest integer, a half going up
\* (the quotient is taken exactly, not in floating point)
MathRound(num, den) == (2 * num + den) \div (2 * den)
\* Math.min(a, b)
MathMin(a, b) == IF a < b THEN a ELSE b

ticksCount(w) == SumTicks(enabledHabits(w), w.ticks)
totalCells(w) == Len(enabledHabits(w)) * 7
habitScore(w) ==
    IF totalCells(w) # 0 THEN MathRound(ticksCount(w) * 100, totalCells(w)) ELSE 0

\* a count of the ticks of every habit of the kind, enabled or not
innerTicksOfAllHabits(w) == SumTicks(OfKind(w.habits, "inner"), w.ticks)
innerTicks(w) == SumTicks(OfKind(enabledHabits(w), "inner"), w.ticks)
outerTicks(w) == SumTicks(OfKind(enabledHabits(w), "outer"), w.ticks)
totalTaggedTicks(w) == innerTicks(w) + outerTicks(w)
\* Math.floor in the place of Math.round
innerPctFloor(w) ==
    IF totalTaggedTicks(w) # 0
    THEN (innerTicks(w) * 100) \div totalTaggedTicks(w)
    ELSE 0
innerPct(w) ==
    IF totalTaggedTicks(w) # 0
    THEN MathRound(innerTicks(w) * 100, totalTaggedTicks(w))
    ELSE 0

\* arr.reduce((a, b) => a + Number(b || 0), 0)
RECURSIVE SumMinutes(_)
SumMinutes(arr) == IF arr = <<>> THEN 0 ELSE Head(arr) + SumMinutes(Tail(arr))
totalInnerMinutes(w) == SumMinutes(w.metrics.dailyInnerMinutes)
targetInnerMinutes == 2 * 7
innerProgress(w) ==
    MathMin(100, MathRound(totalInnerMinutes(w) * 100, targetInnerMinutes))

\* week?.meta?.weekStart !== weekStartISO
MetaWeekStartDiffers(w, iso) ==
    ~ (Typed(w, "meta") /\ "weekStart" \in DOMAIN w.meta /\ w.meta.weekStart = iso)

\* setWeek((p) => ({ ...p, meta: { ...p.meta, weekStart: weekStartISO } }))
FixMetaWeekStart(p, iso) == With(p, "meta", ("weekStart" :> iso) @@ Spread(p, "meta"))

\* useState initialiser of useLocalState
useLocalStateInit(ls, key, initial) ==
    LET raw == getItem(ls, key)
    IN  IF IsTruthyString(raw)
        THEN IF JSON_parses(raw) THEN JSON_parse(raw) ELSE initial
        ELSE initial

\* an effect that writes the week under the key of every week in storage
PersistEffectAllWeeks(ls, key, state) ==
    IF key = WEEK_START_KEY
    THEN setItem(ls, key, JSON_stringify(state, 0))
    ELSE [k \in DOMAIN ls \cup {key} |->
            IF k = WEEK_START_KEY THEN ls[k] ELSE JSON_stringify(state, 0)]
\* The effect of useLocalState: localStorage.setItem(key, JSON.stringify(state))
PersistEffect(ls, key, state) == setItem(ls, key, JSON_stringify(state, 0))

\* Commit with the persisting effect depending on [key] only
CommitKeyOnly(iso, w, ls, isoDep) ==
    IF ~CanRender(w)
    THEN [week |-> w, localStorage |-> ls, crashed |-> TRUE]
    ELSE LET ls1 == IF isoDep THEN PersistEffect(ls, WEEK_START_KEY, Str(iso)) ELSE ls
             ls2 == IF isoDep THEN PersistEffect(ls1, storageKey(iso), w) ELSE ls1
         IN  IF isoDep /\ MetaWeekStartDiffers(w, iso)
             THEN [week |-> FixMetaWeekStart(w, iso), localStorage |-> ls2, crashed |-> FALSE]
             ELSE [week |-> w, localStorage |-> ls2, crashed |-> FALSE]

\* One render of App with the given state followed by its effects, up to
\* quiescence.  isoDep: weekStartISO changed in this render, or this is
\* the mount, so the effects depending on weekStartISO run.
Commit(iso, w, ls, isoDep) ==
    IF ~CanRender(w)
    THEN [week |-> w, localStorage |-> ls, crashed |-> TRUE]
    ELSE LET ls1 == IF isoDep THEN PersistEffect(ls, WEEK_START_KEY, Str(iso)) ELSE ls
             ls2 == PersistEffect(ls1, storageKey(iso), w)
         IN  IF isoDep /\ MetaWeekStartDiffers(w, iso)
             THEN LET w2 == FixMetaWeekStart(w, iso)
                  IN  [week |-> w2,
                       localStorage |-> PersistEffect(ls2, storageKey(iso), w2),
                       crashed |-> FALSE]
             ELSE [week |-> w, localStorage |-> ls2, crashed |-> FALSE]

\* First render of App on a page load
Mount(ls, br, now) ==
    LET iso == useLocalStateInit(ls, WEEK_START_KEY,
                                 Str(formatISO(mondayOfWeek(br.tz, br.now)))).s
        w   == useLocalStateInit(ls, storageKey(iso), newWeekState(iso, now))
    IN  [weekStartISO |-> iso] @@ Commit(iso, w, ls, TRUE)

\* ------------------------------------------------------ initial browsers
UTC      == [std |-> 0,  hasDst |-> FALSE, dstStart |-> 0]
\* five hours behind UTC, daylight saving time starting on Sunday day 20, 02:00
Western  == [std |-> 0 - 5, hasDst |-> TRUE, dstStart |-> 20 * 24 + 2]
Eastern  == [std |-> 1,  hasDst |-> FALSE, dstStart |-> 0]
\* Tuesday of the week that starts on day 14, 10:00 UTC
NowInstant == 15 * 24 + 10

CustomHabit == [id |-> "run-1234", name |-> "Run", enabled |-> TRUE, kind |-> "inner"]
\* a week as an earlier session of the page left it: one custom habit, one tick
UsedWeek(iso) ==
    LET d == newWeekState(iso, 0)
    IN  [d EXCEPT !.habits = Append(@, CustomHabit),
                  !.ticks = ("run-1234" :> [Fill(NDays, FALSE) EXCEPT ![1] = TRUE]) @@ @,
                  !.meta.theme = "Sleep"]
\* a week of an earlier session with one tick on a default habit
TickedWeek(iso) ==
    [newWeekState(iso, 0) EXCEPT !.ticks["sleep"][2] = TRUE]

Stored(iso, doc) == storageKey(iso) :> JSON_stringify(doc, 0)
Pointer(iso) == WEEK_START_KEY :> JSON_stringify(Str(iso), 0)
NoStorage == [k \in {} |-> NoItem]

\* The localStorage contents a page load may find
InitialStorages ==
    << NoStorage,
       Pointer(14) @@ Stored(14, UsedWeek(14)) @@ Stored(21, TickedWeek(21)),
       Pointer(14) @@ (storageKey(14) :> Garbage),
       Pointer(14) @@ (storageKey(14) :> EmptyText),
       Pointer(14) @@ Stored(14, Null),
       Pointer(14) @@ Stored(14, Num(5)),
       Pointer(14) @@ Stored(14, EmptyObject),
       Pointer(14) @@ Stored(14, With(EmptyObject, "meta", newWeekState(14, 0).meta)),
       WEEK_START_KEY :> Garbage >>

\* Page loads in a browser on UTC, one per initial storage
InitialBrowsers ==
    { [tz |-> UTC, now |-> NowInstant, storage |-> i] : i \in DOMAIN InitialStorages }
\* First page loads in browsers west and east of UTC
ZonedBrowsers ==
    { [tz |-> z, now |-> NowInstant, storage |-> 1] : z \in {Western, Eastern} }

NoStep == [op |-> "load"]

\* the page loaded in browser b, which holds the storage ls
InitFrom(b, ls) ==
    LET m == Mount(ls, b, 0)
    IN  /\ browser = [tz |-> b.tz, now |-> b.now]
        /\ weekStartISO = m.weekStartISO
        /\ week = m.week
        /\ localStorage = m.localStorage
        /\ crashed = m.crashed
        /\ readers = <<>>
        /\ download = [name |-> "", text |-> EmptyText]
        /\ exported = [weekStartISO |-> m.weekStartISO, week |-> Null]
        /\ alertMsg = ""
        /\ clock = 0
        /\ last = NoStep
        /\ prev = NoStep

InitIn(browsers) == \E b \in browsers : InitFrom(b, InitialStorages[b.storage])

Init == InitIn(InitialBrowsers)
InitZones == InitIn(ZonedBrowsers)

\* Weeks as earlier sessions left them, for the values the page derives
\* two ticks on an inner habit, one on the outer habit, which is enabled
TwoToOneWeek ==
    [newWeekState(14, 0) EXCEPT
        !.habits = MapHabits(@, "publish", "enabled", TRUE),
        !.ticks["sleep"][2] = TRUE, !.ticks["sleep"][3] = TRUE,
        !.ticks["publish"][2] = TRUE]
\* a custom habit that was ticked and then disabled, one tick on 'sleep'
PausedWeek ==
    [UsedWeek(14) EXCEPT
        !.habits = MapHabits(@, "run-1234", "enabled", FALSE),
        !.ticks["sleep"][2] = TRUE]
\* every habit disabled, one tick left on 'sleep'
AllDisabledWeek ==
    [TickedWeek(14) EXCEPT
        !.habits = [i \in DOMAIN @ |-> [@[i] EXCEPT !.enabled = FALSE]]]
MetricWeeks == << newWeekState(14, 0), TwoToOneWeek, PausedWeek, AllDisabledWeek >>

InitMetrics ==
    \E i \in DOMAIN MetricWeeks :
        InitFrom([tz |-> UTC, now |-> NowInstant],
                 Pointer(14) @@ Stored(14, MetricWeeks[i]))

\* ------------------------------------------------------- step bookkeeping
Pre == [weekStartISO |-> weekStartISO, week |-> week, localStorage |-> localStorage]

Step(op) ==
    /\ clock < MaxOps
    /\ clock' = clock + 1
    /\ last' = IF op.op \in {"shiftWeek", "addHabit"} THEN op @@ [pre |-> Pre] ELSE op
    /\ prev' = last
    /\ UNCHANGED browser

Running == ~crashed

\* the handler set state: React renders and runs the effects
Update(iso, w) ==
    LET c == Commit(iso, w, localStorage, iso # weekStartISO)
    IN  /\ weekStartISO' = iso
        /\ week' = c.week
        /\ localStorage' = c.localStorage
        /\ crashed' = c.crashed

\* setWeek(w)
setWeek(w) == Update(weekStartISO, w)

\* the handler returned without setting state
NoUpdate == UNCHANGED <<weekStartISO, week, localStorage, crashed>>

Quiet == alertMsg' = "" /\ UNCHANGED <<readers, download, exported>>

\* ------------------------------------------------------------- handlers
HabitIds(w) == { w.habits[i].id : i \in DOMAIN w.habits }

\* name.toLowerCase().replace(/\s+/g, "-").replace(/[^a-z0-9-]/g, "").slice(0, 24)
Slug(name) ==
    CASE name = "Run"  -> "run"
      [] name = "run!" -> "run"

\* the habit names typed into the prompt, and the digits Math.random() yields
HabitNames == {"Run", "run!"}
RandomDigits == {"1234", "5678"}

habitId(name, rnd) == Slug(name) \o "-" \o rnd

\* name: the prompt's answer, "" when it was left empty or cancelled
addHabit(name, rnd) ==
    /\ Running
    /\ Step([op |-> "addHabit", name |-> name, id |-> IF name = "" THEN "" ELSE habitId(name, rnd)])
    /\ Quiet
    /\ IF name = ""
       THEN NoUpdate
       ELSE LET id == habitId(name, rnd)
                h  == [id |-> id, name |-> name, enabled |-> TRUE, kind |-> "inner"]
            IN  setWeek(With(With(week, "habits", Append(week.habits, h)),
                             "ticks", (id :> Fill(NDays, FALSE)) @@ Spread(week, "ticks")))

removeHabit(id, confirmed) ==
    /\ Running
    /\ id \in HabitIds(week)
    /\ Step([op |-> "removeHabit", id |-> id, confirmed |-> confirmed])
    /\ Quiet
    /\ IF ~confirmed
       THEN NoUpdate
       ELSE setWeek(With(With(week, "habits", RemoveId(week.habits, id)),
                         "ticks", Without(week.ticks, id)))

setTick(habitId_, dayIndex, val) ==
    /\ Running
    /\ habitId_ \in HabitIds(week)
    /\ Step([op |-> "setTick", id |-> habitId_, dayIndex |-> dayIndex, val |-> val])
    /\ Quiet
    /\ setWeek(With(week, "ticks",
                    [week.ticks EXCEPT ![habitId_] =
                        [i \in DOMAIN @ |-> IF i = dayIndex + 1 THEN val ELSE @[i]]]))

setHabitName(id, name) ==
    /\ Running
    /\ id \in HabitIds(week)
    /\ Step([op |-> "setHabitName", id |-> id])
    /\ Quiet
    /\ setWeek(With(week, "habits", MapHabits(week.habits, id, "name", name)))

setHabitEnabled(id, enabled) ==
    /\ Running
    /\ id \in HabitIds(week)
    /\ Step([op |-> "setHabitEnabled", id |-> id, enabled |-> enabled,
             score |-> habitScore(week)])
    /\ Quiet
    /\ setWeek(With(week, "habits", MapHabits(week.habits, id, "enabled", enabled)))

setHabitKind(id, kind) ==
    /\ Running
    /\ id \in HabitIds(week)
    /\ Step([op |-> "setHabitKind", id |-> id, kind |-> kind])
    /\ Quiet
    /\ setWeek(With(week, "habits", MapHabits(week.habits, id, "kind", kind)))

\* the date shiftWeek moves to
ShiftedISO(zone, iso, delta) == formatISO(setDatePlus(zone, DateOfISO(iso), delta * 7))

\* a shift that never replaces the week in memory
shiftWeekKeepingWeek(delta) ==
    /\ Running
    /\ Step([op |-> "shiftWeek", delta |-> delta])
    /\ Quiet
    /\ Update(ShiftedISO(browser.tz, weekStartISO, delta), week)
shiftWeek(delta) ==
    /\ Running
    /\ Step([op |-> "shiftWeek", delta |-> delta])
    /\ Quiet
    /\ LET nextISO  == ShiftedISO(browser.tz, weekStartISO, delta)
           existing == getItem(localStorage, storageKey(nextISO))
       IN  Update(nextISO, IF ~IsTruthyString(existing)
                           THEN newWeekState(nextISO, clock)
                           ELSE week)

\* a reset that keeps the custom sections and the theme
resetWeekKeepingSections(confirmText, answer) ==
    /\ Running
    /\ Step([op |-> "resetWeek", confirmText |-> confirmText, answer |-> answer])
    /\ Quiet
    /\ IF ~confirmText \/ answer
       THEN setWeek([newWeekState(weekStartISO, clock) EXCEPT
                        !.sections = week.sections,
                        !.meta.theme = week.meta.theme])
       ELSE NoUpdate
\* a reset that does not wait for the answer to confirm()
resetWeekUnasked(confirmText, answer) ==
    /\ Running
    /\ Step([op |-> "resetWeek", confirmText |-> confirmText, answer |-> answer])
    /\ Quiet
    /\ setWeek(newWeekState(weekStartISO, clock))
\* confirmText: the argument; answer: what the user answers to confirm(),
\* FALSE also when no dialog is shown
resetWeek(confirmText, answer) ==
    /\ Running
    /\ Step([op |-> "resetWeek", confirmText |-> confirmText, answer |-> answer])
    /\ Quiet
    /\ IF ~confirmText \/ answer
       THEN setWeek(newWeekState(weekStartISO, clock))
       ELSE NoUpdate

exportJSON ==
    /\ Running
    /\ Step([op |-> "exportJSON"])
    /\ download' = [name |-> "inner-" \o ToString(weekStartISO) \o ".json",
                    text |-> JSON_stringify(week, 2)]
    /\ exported' = [weekStartISO |-> weekStartISO, week |-> week]
    /\ alertMsg' = ""
    /\ UNCHANGED readers
    /\ NoUpdate

\* The files the user may select for import
MissingHabits == Without(newWeekState(14, 0), "habits")
ShortTicks ==
    [newWeekState(14, 0) EXCEPT !.habits = <<CustomHabit>>,
                                !.ticks = "run-1234" :> <<TRUE>>]
ImportFiles ==
    << Garbage,
       JSON_stringify(MissingHabits, 2),
       JSON_stringify(Without(newWeekState(14, 0), "meta"), 2),
       JSON_stringify(Without(newWeekState(14, 0), "ticks"), 2),
       JSON_stringify([MissingHabits EXCEPT !.nulls = {"habits"}], 2),
       JSON_stringify([EmptyObject EXCEPT !.ones = {"meta", "habits", "ticks"}], 0),
       JSON_stringify(UsedWeek(7), 2),
       JSON_stringify(ShortTicks, 2) >>

\* importJSON only starts the FileReader; the file is read asynchronously
importJSON(file) ==
    /\ Running
    /\ Len(readers) < MaxReaders
    /\ Step([op |-> "importJSON", file |-> file])
    /\ readers' = Append(readers, file)
    /\ alertMsg' = ""
    /\ UNCHANGED <<download, exported>>
    /\ NoUpdate

\* a check that forgets habits: data?.meta && data?.ticks
AcceptsIgnoringHabits(data) == Truthy(data, "meta") /\ Truthy(data, "ticks")
\* a check of membership: "meta" in data && "habits" in data && "ticks" in data
AcceptsMembers(data) ==
    Contains(data, "meta") /\ Contains(data, "habits") /\ Contains(data, "ticks")
\* data?.meta && data?.habits && data?.ticks
Accepts(data) == Truthy(data, "meta") /\ Truthy(data, "habits") /\ Truthy(data, "ticks")

\* reader.onload of the i-th pending reader
onload(i) ==
    /\ Running
    /\ i \in DOMAIN readers
    /\ Step([op |-> "onload", file |-> readers[i]])
    /\ readers' = [j \in 1..(Len(readers) - 1) |-> IF j < i THEN readers[j] ELSE readers[j + 1]]
    /\ UNCHANGED <<download, exported>>
    /\ IF ~JSON_parses(readers[i])
       THEN alertMsg' = "Could not read file" /\ NoUpdate
       ELSE LET data == JSON_parse(readers[i])
            IN  IF Accepts(data)
                THEN alertMsg' = "" /\ setWeek(data)
                ELSE alertMsg' = "Invalid file format" /\ NoUpdate

\* the page is loaded again: App mounts from localStorage
reload ==
    /\ Step([op |-> "reload"])
    /\ readers' = <<>>
    /\ alertMsg' = ""
    /\ UNCHANGED <<download, exported>>
    /\ LET m == Mount(localStorage, browser, clock)
       IN  /\ weekStartISO' = m.weekStartISO
           /\ week' = m.week
           /\ localStorage' = m.localStorage
           /\ crashed' = m.crashed

\* ---------------------------------------------------------- field edits
\* onChange of the Weekly Theme input
setTheme(text) ==
    /\ Running
    /\ Step([op |-> "setTheme"])
    /\ Quiet
    /\ setWeek(With(week, "meta", ("theme" :> text) @@ Spread(week, "meta")))

\* onChange of a Daily Inner Minutes input; v = Number(e.target.value ?? 0),
\* which a number input never makes NaN
setDailyInnerMinutes(i, v) ==
    /\ Running
    /\ Step([op |-> "setDailyInnerMinutes"])
    /\ Quiet
    /\ setWeek(With(week, "metrics",
                    [week.metrics EXCEPT !.dailyInnerMinutes =
                        [j \in DOMAIN @ \cup {i + 1} |-> IF j = i + 1 THEN v ELSE @[j]]]))

\* title: the prompt's answer, "" when it was left empty or cancelled
addSection(type, title, rnd) ==
    LET shown == IF title # "" THEN title
                 ELSE IF type = "checklist" THEN "Custom Checklist"
                 ELSE IF type = "notes" THEN "Notes" ELSE "Number"
        id == "sec-" \o rnd
        section ==
            IF type = "checklist"
            THEN [id |-> id, type |-> "checklist", title |-> shown,
                  items |-> << [id |-> "i-" \o rnd, text |-> "New item", done |-> FALSE] >>]
            ELSE IF type = "notes"
            THEN [id |-> id, type |-> "notes", title |-> shown, text |-> ""]
            ELSE [id |-> id, type |-> "number", title |-> shown, value |-> 0]
    IN  /\ Running
        /\ Step([op |-> "addSection"])
        /\ Quiet
        /\ setWeek(With(week, "sections", Append(week.sections, section)))

removeSection(id, confirmed) ==
    /\ Running
    /\ id \in { week.sections[i].id : i \in DOMAIN week.sections }
    /\ Step([op |-> "removeSection", confirmed |-> confirmed])
    /\ Quiet
    /\ IF ~confirmed
       THEN NoUpdate
       ELSE setWeek(With(week, "sections", RemoveId(week.sections, id)))

\* ------------------------------------------------------------------ Next
\* the habits whose controls the steps below operate
TouchedHabits == {"sleep", "publish", "run-1234"}

Next ==
    \/ \E name \in HabitNames, rnd \in RandomDigits :
          /\ name = "run!" => rnd = "1234"
          /\ addHabit(name, rnd)
    \/ addHabit("", "1234")
    \/ Running /\ \E id \in HabitIds(week) \ HabitIds(newWeekState(0, 0)) :
          removeHabit(id, id = "run-1234")
    \/ Running /\ \E id \in TouchedHabits \cap HabitIds(week) :
          setTick(id, 0, ~week.ticks[id][1])
    \/ Running /\ \E id \in {"sleep"} \cap HabitIds(week) : setHabitName(id, "Nap")
    \/ Running /\ \E i \in DOMAIN week.habits :
          /\ week.habits[i].id \in TouchedHabits \ {"sleep"}
          /\ setHabitEnabled(week.habits[i].id, ~week.habits[i].enabled)
    \/ Running /\ \E i \in DOMAIN week.habits :
          /\ week.habits[i].id = "sleep"
          /\ setHabitKind(week.habits[i].id,
                          IF week.habits[i].kind = "inner" THEN "outer" ELSE "inner")
    \/ \E delta \in {0 - 1, 1} : shiftWeek(delta)
    \/ \E answer \in BOOLEAN : resetWeek(TRUE, answer)
    \/ resetWeek(FALSE, FALSE)
    \/ exportJSON
    \/ \E i \in DOMAIN ImportFiles : importJSON(ImportFiles[i])
    \/ download.name # "" /\ importJSON(download.text)
    \/ \E i \in DOMAIN readers : onload(i)
    \/ reload
    \/ setTheme("Boundaries")
    \/ setDailyInnerMinutes(0, 30)
    \/ addSection("notes", "", "123456")
    \/ Running /\ \E i \in DOMAIN week.sections : removeSection(week.sections[i].id, TRUE)

Spec == Init /\ [][Next]_vars
\* the same page in browsers whose local time is not UTC
SpecZones == InitZones /\ [][Next]_vars

\* The habit grid, the minutes inputs and an import, operated on a week of
\* an earlier session
LongTicks ==
    [newWeekState(14, 0) EXCEPT !.habits = <<CustomHabit>>,
                                !.ticks = "run-1234" :> Fill(NDays + 1, TRUE)]
\* what the user may type into a Daily Inner Minutes input
MinuteInputs == {0, 30, 0 - 50}

NextMetrics ==
    \/ Running /\ \E id \in TouchedHabits \cap HabitIds(week), d \in {0, 6} :
          setTick(id, d, ~week.ticks[id][d + 1])
    \/ Running /\ \E i \in DOMAIN week.habits :
          /\ week.habits[i].id \in TouchedHabits
          /\ setHabitEnabled(week.habits[i].id, ~week.habits[i].enabled)
    \/ Running /\ \E i \in DOMAIN week.habits :
          /\ week.habits[i].id = "publish"
          /\ setHabitKind(week.habits[i].id,
                          IF week.habits[i].kind = "inner" THEN "outer" ELSE "inner")
    \/ \E v \in MinuteInputs : setDailyInnerMinutes(0, v)
    \/ addHabit("Run", "1234")
    \/ importJSON(JSON_stringify(LongTicks, 2))
    \/ \E i \in DOMAIN readers : onload(i)

SpecMetrics == InitMetrics /\ [][NextMetrics]_vars

\* ================================================================ claims
ActiveKey == storageKey(weekStartISO)
RequiredFields == {"meta", "habits", "ticks"}

\* C1: for an active week A with a persisted record, shiftWeek(+1) followed
\* by shiftWeek(-1) leaves the record under A's key as it was before the two
\* shifts, and the in-memory week equals that record again.
C1_ShiftThereAndBack ==
    ( /\ last.op = "shiftWeek" /\ last.delta = 0 - 1
      /\ prev.op = "shiftWeek" /\ prev.delta = 1
      /\ storageKey(prev.pre.weekStartISO) \in DOMAIN prev.pre.localStorage )
    => LET keyA == storageKey(prev.pre.weekStartISO)
       IN  /\ getItem(localStorage, keyA) = prev.pre.localStorage[keyA]
           /\ JSON_stringify(week, 0) = prev.pre.localStorage[keyA]

\* C2: a shiftWeek to a week that has a persisted record makes the in-memory
\* week equal to that record and leaves the record as it was; a shiftWeek
\* to a week without a record makes the in-memory week the default state of
\* that week.
C2_ShiftLoadsOrCreates ==
    last.op = "shiftWeek" =>
        LET key == ActiveKey
        IN  IF key \in DOMAIN last.pre.localStorage
            THEN /\ JSON_stringify(week, 0) = last.pre.localStorage[key]
                 /\ getItem(localStorage, key) = last.pre.localStorage[key]
            ELSE week = newWeekState(weekStartISO, week.meta.createdAt)

\* C3: a page reload in a state whose effects have run restores the same
\* active week-start date and the same in-memory week.
C3_ReloadRestores ==
    [][ (last'.op = "reload" /\ ~crashed)
        => (weekStartISO' = weekStartISO /\ week' = week /\ ~crashed') ]_vars

\* C4: whenever the page is running, all effects having run, the record
\* stored under "inner-tracker-v2.2:" + weekStartISO is the JSON text of the
\* in-memory week.
C4_PersistedEqualsMemory ==
    Running => getItem(localStorage, ActiveKey) = JSON_stringify(week, 0)

C4_Witness ==
    /\ Running
    /\ last.op \in {"setTick", "addHabit", "addSection", "setDailyInnerMinutes",
                    "setTheme", "resetWeek", "onload"}
    /\ alertMsg = ""
    /\ week # newWeekState(weekStartISO, week.meta.createdAt)
    /\ JSON_parse(getItem(localStorage, ActiveKey)) = week

\* C5: in every state of the running page, each enabled habit has a tick
\* array of exactly 7 entries.
C5_EnabledHabitsHaveSevenTicks ==
    Running =>
        \A i \in DOMAIN week.habits :
            week.habits[i].enabled =>
                /\ Typed(week, "ticks")
                /\ week.habits[i].id \in DOMAIN week.ticks
                /\ Len(week.ticks[week.habits[i].id]) = NDays

\* C6: addHabit with a non-empty name followed by a confirmed removeHabit of
\* the generated id gives back the habits list from before the addHabit, a
\* tick mapping without the removed id, and unchanged tick arrays for the
\* habits that were there before.
C6_AddThenRemove ==
    ( /\ last.op = "removeHabit" /\ last.confirmed
      /\ prev.op = "addHabit" /\ prev.name # "" /\ last.id = prev.id
      /\ Running )
    => LET before == prev.pre.week
       IN  /\ week.habits = before.habits
           /\ last.id \notin DOMAIN week.ticks
           /\ \A i \in DOMAIN before.habits :
                 LET id == before.habits[i].id
                 IN  id \in DOMAIN week.ticks /\ week.ticks[id] = before.ticks[id]

\* C7: importing the file that exportJSON produced from week W, while the
\* week it was exported from is active, makes the in-memory week equal to W
\* and the persisted record of that week the JSON text of W.
C7_ExportImportRoundTrip ==
    ( /\ last.op = "onload"
      /\ download.name # "" /\ last.file = download.text
      /\ exported.weekStartISO = weekStartISO )
    => /\ week = exported.week
       /\ JSON_parses(getItem(localStorage, ActiveKey))
       /\ JSON_parse(getItem(localStorage, ActiveKey)) = exported.week

C7_Witness ==
    /\ last.op = "onload"
    /\ download.name # "" /\ last.file = download.text
    /\ exported.weekStartISO = weekStartISO
    /\ alertMsg = ""
    /\ Running
    /\ week = exported.week
    /\ week # newWeekState(weekStartISO, week.meta.createdAt)

\* the file is not JSON, or the document lacks meta, habits or ticks
Unacceptable(file) ==
    \/ ~JSON_parses(file)
    \/ \E f \in RequiredFields : ~Contains(JSON_parse(file), f)

\* C8: when the file read by importJSON is not JSON, or its document lacks
\* meta, habits or ticks, an alert is raised and the in-memory week, the
\* active week-start date and every persisted record stay as they were.
C8_InvalidImportRejected ==
    [][ (last'.op = "onload" /\ Unacceptable(last'.file))
        => /\ alertMsg' # ""
           /\ week' = week
           /\ weekStartISO' = weekStartISO
           /\ localStorage' = localStorage
           /\ crashed' = crashed ]_vars

C8_Witness ==
    /\ last.op = "onload"
    /\ JSON_parses(last.file)
    /\ ~Contains(JSON_parse(last.file), "habits")
    /\ alertMsg = "Invalid file format"
    /\ Running

\* C9 as stated: a parsed document is accepted, and becomes the week, if and
\* only if it contains meta, habits and ticks, whatever their values.
C9_AcceptsIffContainsFields ==
    [][ (last'.op = "onload" /\ JSON_parses(last'.file))
        => LET data == JSON_parse(last'.file)
           IN  IF \A f \in RequiredFields : Contains(data, f)
               THEN alertMsg' = "" /\ week' = data
               ELSE alertMsg' # "" /\ week' = week ]_vars

\* C9 amended: a parsed document is accepted, and passed to setWeek, if and
\* only if meta, habits and ticks are all present with truthy values; every
\* other document raises the alert "Invalid file format" and is discarded.
C9_AcceptsIffFieldsTruthy ==
    [][ (last'.op = "onload" /\ JSON_parses(last'.file))
        => LET data == JSON_parse(last'.file)
           IN  IF \A f \in RequiredFields : Contains(data, f) /\ f \notin data.nulls
               THEN alertMsg' = "" /\ week' = data
               ELSE /\ alertMsg' = "Invalid file format"
                    /\ week' = week /\ localStorage' = localStorage ]_vars

C9_Witness ==
    /\ last.op = "onload"
    /\ JSON_parses(last.file)
    /\ "habits" \in JSON_parse(last.file).nulls
    /\ alertMsg = "Invalid file format"

\* C10: loading a week never fails, whatever its storage entry holds: the
\* page runs with the persisted week or with a default week.
C10_LoadNeverFails ==
    last.op \in {"load", "reload"} => Running

\* C11 as stated: whatever the argument of resetWeek, the week is replaced
\* by defaults only if the user answered the confirmation dialog positively
\* during the call; otherwise the in-memory week and localStorage are as
\* they were.
C11_ResetOnlyIfConfirmed ==
    [][ (last'.op = "resetWeek" /\ ~last'.answer)
        => (week' = week /\ localStorage' = localStorage) ]_vars

\* C11 amended: a call of resetWeek with confirmText true (the default, which
\* the Reset button passes) replaces the week by defaults exactly when the
\* user answers the dialog positively and otherwise changes neither the week
\* nor localStorage; a call with confirmText false shows no dialog and
\* replaces the week.
C11_ResetAsksUnlessToldNotTo ==
    [][ last'.op = "resetWeek"
        => IF ~last'.confirmText \/ last'.answer
           THEN week' = newWeekState(weekStartISO, clock)
           ELSE week' = week /\ localStorage' = localStorage ]_vars

C11_Witness ==
    /\ last.op = "resetWeek"
    /\ last.confirmText /\ ~last.answer
    /\ Running
    /\ week.habits # DEFAULT_HABITS
    /\ getItem(localStorage, ActiveKey) = JSON_stringify(week, 0)

\* p is num / den rounded to the nearest integer, a half going up (den > 0)
IsRounded(p, num, den) ==
    /\ 2 * num - den < 2 * p * den
    /\ 2 * p * den <= 2 * num + den
\* the positions in the habit list of the enabled habits
EnabledIndices(w) == { i \in DOMAIN w.habits : w.habits[i].enabled }
\* the positions of the habits of a kind
KindIndices(w, kind) == { i \in DOMAIN w.habits : w.habits[i].kind = kind }
\* the set ticks of the habits at the positions I, as <<position, day>>
SetTicks(w, I) ==
    UNION { { <<i, d>> : d \in { e \in DOMAIN w.ticks[w.habits[i].id] :
                                    w.ticks[w.habits[i].id][e] = TRUE } } : i \in I }

\* C12: in every state of the running page habitScore is an integer from 0
\* to 100, and it is 0 when no habit is enabled.
C12_HabitScoreInRange ==
    Running =>
        /\ habitScore(week) \in 0..100
        /\ EnabledIndices(week) = {} => habitScore(week) = 0

\* C13: habitScore is 100 * T / (E * 7) rounded, E being the number of
\* enabled habits and T the number of their set ticks, and 0 when E = 0; a
\* setTick on a habit that is disabled leaves the score as it was; and
\* disabling a habit and enabling it again gives the score from before.
C13_HabitScoreFormula ==
    [][ ~crashed' =>
        /\ LET E == Cardinality(EnabledIndices(week'))
               T == Cardinality(SetTicks(week', EnabledIndices(week')))
           IN  IF E = 0 THEN habitScore(week') = 0
               ELSE IsRounded(habitScore(week'), 100 * T, E * 7)
        /\ ( /\ last'.op = "setTick"
             /\ \A i \in DOMAIN week.habits :
                   week.habits[i].id = last'.id => ~week.habits[i].enabled )
           => habitScore(week') = habitScore(week)
        /\ ( /\ last'.op = "setHabitEnabled" /\ last'.enabled
             /\ last.op = "setHabitEnabled" /\ ~last.enabled
             /\ last.id = last'.id )
           => habitScore(week') = last.score ]_vars

\* C14 as stated: innerTicks and outerTicks count the set ticks of all the
\* habits of kind inner and of kind outer, enabled or not.
C14_TicksOverAllHabits ==
    Running =>
        /\ innerTicks(week) = Cardinality(SetTicks(week, KindIndices(week, "inner")))
        /\ outerTicks(week) = Cardinality(SetTicks(week, KindIndices(week, "outer")))

\* C14 amended: innerTicks and outerTicks count the set ticks of the enabled
\* habits of kind inner and of kind outer; the ticks of a disabled habit
\* are counted in neither.
C14_TicksOverEnabledHabits ==
    Running =>
        /\ innerTicks(week) =
              Cardinality(SetTicks(week, KindIndices(week, "inner") \cap EnabledIndices(week)))
        /\ outerTicks(week) =
              Cardinality(SetTicks(week, KindIndices(week, "outer") \cap EnabledIndices(week)))

C14_Witness ==
    /\ Running
    /\ last.op \in {"setTick", "setHabitEnabled", "setHabitKind"}
    /\ innerTicks(week) > 0
    /\ outerTicks(week) > 0
    /\ SetTicks(week, DOMAIN week.habits \ EnabledIndices(week)) # {}

C16_InnerProgress ==
    Running =>
        LET total == totalInnerMinutes(week)
        IN  /\ \/ innerProgress(week) = 100 /\ 100 * total >= 100 * 14 - 7
               \/ innerProgress(week) < 100
                    /\ IsRounded(innerProgress(week), 100 * total, 14)
            /\ innerProgress(week) \in 0..100

\* C17: the active week-start date is always a Monday (day 0 is a Monday),
\* in every timezone, and a shiftWeek(delta) moves it by exactly 7 * delta
\* days.
C17_WeekStartIsMonday ==
    /\ weekStartISO % 7 = 0
    /\ last.op = "shiftWeek" =>
          weekStartISO = last.pre.weekStartISO + 7 * last.delta

\* the keys of the week records in a storage
WeekKeys(ls) == DOMAIN ls \ {WEEK_START_KEY}
\* the steps that reset or edit the active week, or load it
EditingSteps ==
    {"resetWeek", "removeHabit", "removeSection", "addHabit", "addSection",
     "setTick", "setHabitName", "setHabitEnabled", "setHabitKind", "setTheme",
     "setDailyInnerMinutes", "onload", "reload"}

\* C18: no step removes the record of a week from localStorage, and the
\* record of a week changes only in a reset or an edit made while that week
\* is the active one.
C18_RecordsKept ==
    [][ \A k \in WeekKeys(localStorage) :
          /\ k \in DOMAIN localStorage'
          /\ localStorage'[k] # localStorage[k]
               => /\ k = storageKey(weekStartISO)
                  /\ weekStartISO' = weekStartISO
                  /\ last'.op \in EditingSteps ]_vars

\* the default content of a week: the 9 default habits in their order, 8 of
\* them enabled, 7 unset ticks for each, no sections, five empty wins and
\* seven daily values of 2
IsDefaultWeek(w) ==
    /\ IsObject(w)
    /\ [i \in DOMAIN w.habits |-> w.habits[i].id] =
          << "upstream", "sleep", "move", "noscroll", "learn", "fuel",
             "connect", "screentime", "publish" >>
    /\ \A i \in DOMAIN w.habits : w.habits[i].enabled = (w.habits[i].id # "publish")
    /\ DOMAIN w.ticks = { w.habits[i].id : i \in DOMAIN w.habits }
    /\ \A id \in DOMAIN w.ticks :
          w.ticks[id] = << FALSE, FALSE, FALSE, FALSE, FALSE, FALSE, FALSE >>
    /\ w.sections = << >>
    /\ w.wins = << "", "", "", "", "" >>
    /\ w.metrics.dailyInnerMinutes = << 2, 2, 2, 2, 2, 2, 2 >>
\* no logo and no text in the theme, the one-time fields and the reflection
HasNoText(w) ==
    /\ w.meta.theme = "" /\ w.meta.logoDataUrl = ""
    /\ w.metrics.realMetricValue = ""
    /\ \A f \in DOMAIN w.oneTime : w.oneTime[f] = ""
    /\ \A f \in {"helped", "overPolish", "stop", "cont", "start", "commitment"} :
          w.reflection[f] = ""

\* C19: a week that becomes active without having a persisted record, at the
\* first page load (every page load of SpecZones finds an empty
\* localStorage) or by a shiftWeek, has the default content; nothing of the
\* week that was active before carries over.
C19_NewWeekIsDefault ==
    /\ last.op = "load" => (Running /\ IsDefaultWeek(week))
    /\ ( /\ last.op = "shiftWeek"
         /\ ActiveKey \notin DOMAIN last.pre.localStorage )
       => (Running /\ IsDefaultWeek(week))

C19_Witness ==
    /\ last.op = "shiftWeek"
    /\ ActiveKey \notin DOMAIN last.pre.localStorage
    /\ last.pre.week.habits # DEFAULT_HABITS
    /\ last.pre.week.sections # << >>
    /\ IsDefaultWeek(week)

\* C20: after a resetWeek that the user confirmed the week in memory is the
\* default week of the active date: default habits and ticks, no sections,
\* no logo, no text, meta.weekStart equal to weekStartISO; and weekStartISO
\* is the one from before.
C20_ResetGivesDefault ==
    [][ (last'.op = "resetWeek" /\ last'.answer)
        => /\ ~crashed'
           /\ IsDefaultWeek(week')
           /\ HasNoText(week')
           /\ week'.meta.weekStart = weekStartISO'
           /\ weekStartISO' = weekStartISO ]_vars

C20_Witness ==
    /\ last.op = "resetWeek" /\ last.answer
    /\ prev.op = "addSection"
    /\ exported.week # Null
    /\ ~IsDefaultWeek(exported.week)
    /\ exported.weekStartISO = weekStartISO
    /\ IsDefaultWeek(week)
    /\ HasNoText(week)

\* C21: an accepted import replaces the week that was active when the file
\* was selected: when a shiftWeek takes place between the selection and the
\* end of the file read, the document is still not written under the key of
\* any other week.
C21_ImportIsAtomic ==
    [][ ( /\ last'.op = "onload" /\ alertMsg' = ""
          /\ last.op = "shiftWeek"
          /\ prev.op = "importJSON" /\ prev.file = last'.file )
        => \A k \in WeekKeys(localStorage') :
              k # storageKey(last.pre.weekStartISO)
                => (k \in DOMAIN localStorage /\ localStorage'[k] = localStorage[k]) ]_vars

\* the dates whose week records are inspected
InspectedDates == 0..35

\* C22: whenever the page is running, all effects having run, meta.weekStart
\* of the week in memory is weekStartISO, and every week record stored under
\* "inner-tracker-v2.2:" + D that holds a meta.weekStart holds D.
C22_MetaWeekStartMatchesKey ==
    Running =>
        /\ ~MetaWeekStartDiffers(week, weekStartISO)
        /\ \A D \in InspectedDates :
              LET raw == getItem(localStorage, storageKey(D))
              IN  ( /\ JSON_parses(raw)
                    /\ Typed(JSON_parse(raw), "meta")
                    /\ "weekStart" \in DOMAIN JSON_parse(raw).meta )
                  => JSON_parse(raw).meta.weekStart = D

\* the steps that edit the active week and leave the active date alone
SameWeekSteps == EditingSteps \ {"reload"}

\* C23: a step that edits the active week without changing the active date
\* leaves the record of every other week and the stored week-start pointer
\* as they were, and creates no key but the active week's.
C23_OtherWeeksUntouched ==
    [][ last'.op \in SameWeekSteps
        => /\ weekStartISO' = weekStartISO
           /\ DOMAIN localStorage' \subseteq DOMAIN localStorage \cup {ActiveKey}
           /\ \A k \in DOMAIN localStorage \ {ActiveKey} :
                 k \in DOMAIN localStorage' /\ localStorage'[k] = localStorage[k] ]_vars

C23_Witness ==
    /\ last.op \in {"setTick", "resetWeek", "onload"}
    /\ alertMsg = ""
    /\ Running
    /\ weekStartISO = 14
    /\ getItem(localStorage, ActiveKey) # JSON_stringify(UsedWeek(14), 0)
    /\ getItem(localStorage, storageKey(21)) = JSON_stringify(TickedWeek(21), 0)
    /\ getItem(localStorage, WEEK_START_KEY) = JSON_stringify(Str(14), 0)

\* C24: whenever the page is running, no two habits of the list have the
\* same id, and the keys of the tick mapping are exactly the ids of the
\* habits.
C24_UniqueHabitIds ==
    Running =>
        /\ \A i, j \in DOMAIN week.habits :
              week.habits[i].id = week.habits[j].id => i = j
        /\ Typed(week, "ticks")
        /\ DOMAIN week.ticks = HabitIds(week)

====
